---- MODULE Spec2Model ----
(***************************************************************************)
(* Model of the storage layer (DatabaseStorage) and of the routes that     *)
(* call it: projects with denormalised counters, likes, comments, the      *)
(* ranked project feed and the comment tree, feedback, site visits and     *)
(* the statistics, and the PUT and DELETE routes with their responses.     *)
(*                                                                         *)
(* The relational store is the state.  Every storage method that is one    *)
(* SQL statement is one atomic step; toggleLike is four statements and is  *)
(* modelled both as a call that runs alone (ToggleLike) and, statement by  *)
(* statement, as concurrent calls (TLCheck .. TLReturn).                   *)
(***************************************************************************)
EXTENDS Integers, Sequences, FiniteSets

VARIABLES
    now,        \* the store's clock, in ticks
    projects,   \* projects table: sequence indexed by the serial id
    likes,      \* likes table: (projectId, userId) -> number of rows
    comments,   \* comments table: sequence indexed by the serial id
    calls,      \* toggleLike calls in flight, per request slot
    started,    \* number of toggleLike requests accepted so far
    feedback,   \* feedback table: sequence indexed by the serial id
    siteVisits, \* site_visits table: sequence indexed by the serial id
    users,      \* users table: the ids of its rows
    served,     \* the GET, PUT or DELETE :id request answered last, with its status
    viewCalls,  \* project id -> incrementViewCount calls made on its row
    selection,  \* useProjectPagination: activeTab and selectedCategory
    state,      \* useProjectPagination: the ProjectPaginationState
    firstPageData, \* useProjectPagination: data of the first-page query, if any
    loadMoreMutation, \* useProjectPagination: the load-more request in flight
    exhausted   \* a load-more came back short or failed since the last first page

(* The state of one mounted useProjectPagination hook *)
hookVars == <<selection, state, firstPageData, loadMoreMutation, exhausted>>

vars == <<now, projects, likes, comments, calls, started,
          feedback, siteVisits, users, served, viewCalls, hookVars>>

----------------------------------------------------------------------------
(* Bounds of the model *)

MaxProjects == 2        \* projects created in the feed specification
MaxNow == 2             \* last clock tick of the feed specification
MaxConcProjects == 1    \* projects of the concurrent specification
MaxStarted == 3         \* toggleLike requests of the concurrent specification
MaxTimeProjects == 1    \* projects of the time-window specification
MaxDays == 31           \* days the clock runs in the time-window specification
MaxComments == 3        \* comments of the comment specification
MaxCommentProjects == 2 \* projects of the comment specification
MaxCommentNow == 1      \* last clock tick of the comment specification
MaxViewProjects == 2    \* projects of the view-count specification
MaxViews == 3           \* incrementViewCount calls per project row
MaxStatsProjects == 2   \* projects of the statistics specification
MaxStatsNow == 2        \* last clock tick of the statistics specification
MaxVisits == 2          \* rows of the site_visits table
MaxRouteProjects == 1   \* projects of the route specification
MaxRouteComments == 1   \* comments of the route specification
MaxRouteFeedback == 1   \* feedback rows of the route specification
MaxDistinctStarted == 4 \* toggleLike requests of the distinct-user specification
MaxFailed == 3          \* failing toggleLike calls of the failure specification
MaxLifeProjects == 1    \* projects of the project-life specification
MaxLifeViews == 2       \* views of a project in the project-life specification
MaxLifeComments == 1    \* comments of the project-life specification
MaxWrittenComments == 2 \* comments of the comment-write specification
HookLimit == 2          \* limit option of the pagination hook
MaxHookPage == 3        \* last page a load-more request asks for

(* Program constants *)

DayLen == 2             \* ticks per calendar day (midnight, noon)
WeeklyDays == 7         \* INTERVAL '7 days'
MonthlyDays == 30       \* INTERVAL '30 days'
DefaultLimit == 20      \* limit = 20
DefaultOffset == 0      \* offset = 0
DefaultPage == 1        \* page = '1'
NoCategory == 0         \* categoryId undefined / NULL (serial ids start at 1)
NoParent == -1          \* parentId NULL
NoUser == ""            \* userId undefined (req.user absent)
NoSum == -1             \* SUM over no rows: NULL

Users == {"u1", "u2"}
Viewers == Users \cup {NoUser}      \* req.user?.id: a user, or nobody
Procs == {1, 2}
Sessions == {"s1", "s2"}
Categories == {1}
Timeframes == {"today", "weekly", "monthly", "all"}

(* Request bodies accepted by insertProjectSchema, as far as the feed reads them *)
ProjectInputs ==
    { [title |-> <<"a", "B">>, description |-> <<"c">>, categoryId |-> 1],
      [title |-> <<"b">>, description |-> <<"A">>, categoryId |-> NoCategory] }

(* Search strings of GET /api/projects/search *)
(* Bodies of PUT /api/projects/:id: insertProjectSchema.partial() *)
ProjectPatches == { [title |-> <<"%">>], [authorId |-> "u2"] }

(* content of a PUT /api/comments/:id body *)
CommentContents == {"x", "y"}

(* { content, category } of a feedback body *)
FeedbackInputs ==
    { [content |-> "x", category |-> "bug"], [content |-> "y", category |-> "feature"] }

(* Tabs the user switches between in the pagination hook *)
HookTabs == {"today", "all"}

Queries == { <<"a">>, <<"b", "c">>, <<"A", "b">>, <<"%">>, <<"_", "_">> }

----------------------------------------------------------------------------
(* Small helpers *)

Min(a, b) == IF a < b THEN a ELSE b

Max(a, b) == IF a > b THEN a ELSE b

Range(s) == { s[i] : i \in DOMAIN s }

(* All orders in which the store may visit the rows with ids in S *)
Perms(S) == { s \in [1..Cardinality(S) -> S] : \A x \in S : \E i \in DOMAIN s : s[i] = x }

----------------------------------------------------------------------------
(* The likes table and the four statements of toggleLike *)

(* Number of Like rows for (projectId, userId) *)
LikeRows(lks, p, u) == IF <<p, u>> \in DOMAIN lks THEN lks[<<p, u>>] ELSE 0

(* Number of Like rows that reference project p *)
LikeRowsOf(lks, p) ==
    LET pairs == { x \in DOMAIN lks : x[1] = p }
        RECURSIVE Sum(_)
        Sum(S) == IF S = {} THEN 0
                  ELSE LET x == CHOOSE y \in S : TRUE IN lks[x] + Sum(S \ {x})
    IN Sum(pairs)

(* SelectLike without the userId condition: a like of anyone counts *)
SelectLikeOfAnyone(lks, p, u) ==
    \E x \in DOMAIN lks : x[1] = p /\ lks[x] > 0

(* SELECT FROM likes WHERE projectId = p AND userId = u; existingLike.length > 0 *)
SelectLike(lks, p, u) == LikeRows(lks, p, u) > 0

(* INSERT INTO likes (projectId, userId): the table has no unique constraint *)
InsertLike(lks, p, u) ==
    [ x \in DOMAIN lks \cup {<<p, u>>} |->
        IF x = <<p, u>> THEN LikeRows(lks, p, u) + 1 ELSE lks[x] ]

(* DeleteLike without the userId condition: removes every like of the project *)
DeleteLikeAnyUser(lks, p, u) == [ x \in { y \in DOMAIN lks : y[1] # p } |-> lks[x] ]

(* DELETE FROM likes WHERE projectId = p AND userId = u: every matching row *)
DeleteLike(lks, p, u) == [ x \in DOMAIN lks \ {<<p, u>>} |-> lks[x] ]

(* The counter update that never takes likeCount below zero *)
UpdateLikeCountClamped(projs, p, d) ==
    [ i \in DOMAIN projs |->
        IF i = p
        THEN [projs[i] EXCEPT !.likeCount = IF @ + d < 0 THEN 0 ELSE @ + d]
        ELSE projs[i] ]

(* UpdateLikeCount that increments on unlike as well *)
UpdateLikeCountAlwaysUp(projs, p, d) ==
    [ i \in DOMAIN projs |->
        IF i = p THEN [projs[i] EXCEPT !.likeCount = @ + 1] ELSE projs[i] ]

(* UPDATE projects SET likeCount = likeCount + d WHERE id = p *)
UpdateLikeCount(projs, p, d) ==
    [ i \in DOMAIN projs |->
        IF i = p THEN [projs[i] EXCEPT !.likeCount = @ + d] ELSE projs[i] ]

(* SELECT likeCount FROM projects WHERE id = p; project.likeCount || 0 *)
ReadLikeCount(projs, p) == projs[p].likeCount

(* toggleLike(projectId, userId) run alone: store after the call and result *)
ToggleLikeCall(projs, lks, p, u) ==
    IF SelectLike(lks, p, u)
    THEN LET lks2 == DeleteLike(lks, p, u)
             projs2 == UpdateLikeCount(projs, p, -1)
         IN [ projects |-> projs2, likes |-> lks2,
              ret |-> [liked |-> FALSE, likeCount |-> ReadLikeCount(projs2, p)] ]
    ELSE LET lks2 == InsertLike(lks, p, u)
             projs2 == UpdateLikeCount(projs, p, 1)
         IN [ projects |-> projs2, likes |-> lks2,
              ret |-> [liked |-> TRUE, likeCount |-> ReadLikeCount(projs2, p)] ]

(* Two toggleLike(p, u) calls A and B whose statements alternate: select A,
   select B, write A, write B, count A, count B *)
RacingToggles(projs, lks, p, u) ==
    LET existingA == SelectLike(lks, p, u)
        existingB == SelectLike(lks, p, u)
        lksA == IF existingA THEN DeleteLike(lks, p, u) ELSE InsertLike(lks, p, u)
        lksB == IF existingB THEN DeleteLike(lksA, p, u) ELSE InsertLike(lksA, p, u)
        projsA == UpdateLikeCount(projs, p, IF existingA THEN -1 ELSE 1)
        projsB == UpdateLikeCount(projsA, p, IF existingB THEN -1 ELSE 1)
    IN [ projects |-> projsB, likes |-> lksB ]

(* The statements of toggleLike, in order: select, delete or insert, counter
   update, counter read *)
Statements == 1 .. 4

(* toggleLike(p, u) run alone when its statement failAt throws: what the
   statements before it have written stays written (no transaction) *)
ToggleLikeFailing(projs, lks, p, u, failAt) ==
    LET existing == SelectLike(lks, p, u)
        lks2 == IF existing THEN DeleteLike(lks, p, u) ELSE InsertLike(lks, p, u)
        projs2 == UpdateLikeCount(projs, p, IF existing THEN -1 ELSE 1)
        writeFails == failAt = 2 \/ (~existing /\ p \notin DOMAIN projs)
    IN IF failAt = 1 \/ writeFails THEN [ projects |-> projs, likes |-> lks ]
       ELSE IF failAt = 3 THEN [ projects |-> projs, likes |-> lks2 ]
       ELSE [ projects |-> projs2, likes |-> lks2 ]

----------------------------------------------------------------------------
(* Project writes *)

(* createProject: INSERT with the column defaults of the projects table *)
NewProject(input, u, t) ==
    [ title |-> input.title, description |-> input.description,
      categoryId |-> input.categoryId, authorId |-> u,
      viewCount |-> 0, likeCount |-> 0, commentCount |-> 0,
      isActive |-> TRUE, createdAt |-> t ]

(* POST /api/projects by the authenticated user u *)
CreateProject(u, input) ==
    /\ projects' = Append(projects, NewProject(input, u, now))
    /\ UNCHANGED <<now, likes, comments, calls, started,
                 feedback, siteVisits, users, served, viewCalls, hookVars>>

(* deleteProject: UPDATE projects SET isActive = false WHERE id = p *)
SoftDeleteProject(projs, p) ==
    [ i \in DOMAIN projs |->
        IF i = p THEN [projs[i] EXCEPT !.isActive = FALSE] ELSE projs[i] ]

----------------------------------------------------------------------------
(* The ranked project feed: getProjects, searchProjects, getProject *)

(* CURRENT_DATE: midnight of the calendar day of instant t *)
CurrentDate(t) == t - (t % DayLen)

(* TimeCondition with a rolling 24 hour window for 'today' *)
TimeConditionRollingDay(tf, c, t) ==
    IF tf = "today" THEN c >= t - DayLen
    ELSE IF tf = "weekly" THEN c >= CurrentDate(t) - WeeklyDays * DayLen
    ELSE IF tf = "monthly" THEN c >= CurrentDate(t) - MonthlyDays * DayLen
    ELSE TRUE

(* TimeCondition with exclusive lower bounds *)
TimeConditionExclusive(tf, c, t) ==
    IF tf = "today" THEN c > CurrentDate(t)
    ELSE IF tf = "weekly" THEN c > CurrentDate(t) - WeeklyDays * DayLen
    ELSE IF tf = "monthly" THEN c > CurrentDate(t) - MonthlyDays * DayLen
    ELSE TRUE

(* timeCondition of getProjects on a row created at instant c *)
TimeCondition(tf, c, t) ==
    IF tf = "today" THEN c >= CurrentDate(t)
    ELSE IF tf = "weekly" THEN c >= CurrentDate(t) - WeeklyDays * DayLen
    ELSE IF tf = "monthly" THEN c >= CurrentDate(t) - MonthlyDays * DayLen
    ELSE TRUE

(* lower(): ILIKE compares case-insensitively *)
Lower(ch) == IF ch = "A" THEN "a" ELSE IF ch = "B" THEN "b" ELSE IF ch = "C" THEN "c" ELSE ch

(* text ILIKE pattern, with the wildcards % and _ *)
RECURSIVE ILike(_, _)
ILike(text, pat) ==
    IF pat = <<>> THEN text = <<>>
    ELSE IF Head(pat) = "%"
         THEN ILike(text, Tail(pat)) \/ (text # <<>> /\ ILike(Tail(text), pat))
         ELSE /\ text # <<>>
              /\ (Head(pat) = "_" \/ Lower(Head(text)) = Lower(Head(pat)))
              /\ ILike(Tail(text), Tail(pat))

(* searchQuery = `%${query}%` *)
SearchPattern(query) == <<"%">> \o query \o <<"%">>

(* ProjectBefore with the second key ascending: asc(createdAt) *)
ProjectBeforeOldestFirst(projs, a, b) ==
    \/ projs[a].likeCount > projs[b].likeCount
    \/ /\ projs[a].likeCount = projs[b].likeCount
       /\ projs[a].createdAt < projs[b].createdAt

(* orderBy(desc(likeCount), desc(createdAt)): row a sorts strictly before row b *)
ProjectBefore(projs, a, b) ==
    \/ projs[a].likeCount > projs[b].likeCount
    \/ /\ projs[a].likeCount = projs[b].likeCount
       /\ projs[a].createdAt > projs[b].createdAt

(* Insert row id into the ordered ids; rows that compare equal keep the order
   in which the store visited them *)
RECURSIVE InsertProject(_, _, _)
InsertProject(projs, sorted, id) ==
    IF sorted = <<>> THEN <<id>>
    ELSE IF ProjectBefore(projs, id, Head(sorted))
         THEN <<id>> \o sorted
         ELSE <<Head(sorted)>> \o InsertProject(projs, Tail(sorted), id)

RECURSIVE OrderProjects(_, _)
OrderProjects(projs, ids) ==
    IF ids = <<>> THEN <<>>
    ELSE InsertProject(projs, OrderProjects(projs, SubSeq(ids, 1, Len(ids) - 1)), ids[Len(ids)])

(* LimitOffset that cuts to limit rows before it skips offset rows *)
LimitThenOffset(rows, limit, offset) ==
    LET first == SubSeq(rows, 1, Min(Len(rows), limit))
    IN SubSeq(first, offset + 1, Len(first))

(* LIMIT limit OFFSET offset *)
LimitOffset(rows, limit, offset) == SubSeq(rows, offset + 1, Min(Len(rows), offset + limit))

(* IsLiked without the userId condition: true when anybody liked the project *)
IsLikedByAnyone(lks, p, userId) == IF userId # NoUser THEN LikeRowsOf(lks, p) > 0 ELSE FALSE

(* isLiked: userId ? EXISTS(SELECT 1 FROM likes ...) : false *)
IsLiked(lks, p, userId) == IF userId # NoUser THEN LikeRows(lks, p, userId) > 0 ELSE FALSE

(* results.map(({project, author, category, isLiked}) => ({...project, isLiked})) *)
ProjectWithDetails(projs, lks, p, userId) ==
    [ id |-> p, title |-> projs[p].title, description |-> projs[p].description,
      categoryId |-> projs[p].categoryId, authorId |-> projs[p].authorId,
      viewCount |-> projs[p].viewCount, likeCount |-> projs[p].likeCount,
      commentCount |-> projs[p].commentCount, isActive |-> projs[p].isActive,
      createdAt |-> projs[p].createdAt, isLiked |-> IsLiked(lks, p, userId) ]

(* An option of the options object, or its default when the caller left it out *)
Opt(options, field, default) == IF field \in DOMAIN options THEN options[field] ELSE default

(* ProjectMatches without the isActive condition *)
ProjectMatchesAnyState(projs, p, categoryId, tf, t) ==
    /\ (IF categoryId # NoCategory THEN projs[p].categoryId = categoryId ELSE TRUE)
    /\ TimeCondition(tf, projs[p].createdAt, t)

(* WHERE isActive = true AND (categoryId ? category_id = categoryId : true) AND timeCondition *)
ProjectMatches(projs, p, categoryId, tf, t) ==
    /\ projs[p].isActive
    /\ (IF categoryId # NoCategory THEN projs[p].categoryId = categoryId ELSE TRUE)
    /\ TimeCondition(tf, projs[p].createdAt, t)

(* getProjects(options) at instant t; scan is the order in which the store
   visits the rows of the projects table *)
getProjects(projs, lks, t, options, scan) ==
    LET categoryId == Opt(options, "categoryId", NoCategory)
        limit == Opt(options, "limit", DefaultLimit)
        offset == Opt(options, "offset", DefaultOffset)
        timeframe == Opt(options, "timeframe", "all")
        userId == Opt(options, "userId", NoUser)
        Keep(p) == ProjectMatches(projs, p, categoryId, timeframe, t)
        rows == LimitOffset(OrderProjects(projs, SelectSeq(scan, Keep)), limit, offset)
    IN [ i \in DOMAIN rows |-> ProjectWithDetails(projs, lks, rows[i], userId) ]

(* The search with the isActive condition left out *)
SearchMatchesAnyState(projs, p, query) ==
    \/ ILike(projs[p].title, SearchPattern(query))
    \/ ILike(projs[p].description, SearchPattern(query))

(* WHERE isActive = true AND (title ILIKE q OR description ILIKE q) *)
SearchMatches(projs, p, query) ==
    /\ projs[p].isActive
    /\ \/ ILike(projs[p].title, SearchPattern(query))
       \/ ILike(projs[p].description, SearchPattern(query))

(* searchProjects(query, options) *)
searchProjects(projs, lks, query, options, scan) ==
    LET limit == Opt(options, "limit", DefaultLimit)
        offset == Opt(options, "offset", DefaultOffset)
        userId == Opt(options, "userId", NoUser)
        Keep(p) == SearchMatches(projs, p, query)
        rows == LimitOffset(OrderProjects(projs, SelectSeq(scan, Keep)), limit, offset)
    IN [ i \in DOMAIN rows |-> ProjectWithDetails(projs, lks, rows[i], userId) ]

(* getProject(id, userId): the rows of the query; <<>> is the undefined result *)
getProject(projs, lks, id, userId) ==
    IF id \in DOMAIN projs /\ projs[id].isActive
    THEN << ProjectWithDetails(projs, lks, id, userId) >>
    ELSE <<>>

(* GET /api/projects: the options the route builds from the query string *)
ListOptions(query, userId) ==
    LET page == Opt(query, "page", DefaultPage)
        limit == Opt(query, "limit", DefaultLimit)
    IN [ categoryId |-> Opt(query, "categoryId", NoCategory),
         limit |-> limit,
         offset |-> (page - 1) * limit,
         timeframe |-> Opt(query, "timeframe", "all"),
         userId |-> userId ]

----------------------------------------------------------------------------
(* Comments: getComments and the comment writes *)

(* createComment: INSERT with the column defaults of the comments table *)
NewComment(content, p, u, parentId, t) ==
    [ content |-> content, projectId |-> p, authorId |-> u, parentId |-> parentId,
      isActive |-> TRUE, createdAt |-> t ]

(* The counter update with its WHERE clause left out *)
UpdateCommentCountEverywhere(projs, p) ==
    [ i \in DOMAIN projs |-> [projs[i] EXCEPT !.commentCount = @ + 1] ]

(* UPDATE projects SET commentCount = commentCount + 1 WHERE id = p *)
UpdateCommentCount(projs, p) ==
    [ i \in DOMAIN projs |->
        IF i = p THEN [projs[i] EXCEPT !.commentCount = @ + 1] ELSE projs[i] ]

(* updateComment: UPDATE comments SET content WHERE id = c *)
SetCommentContent(cmts, c, content) ==
    [ i \in DOMAIN cmts |->
        IF i = c THEN [cmts[i] EXCEPT !.content = content] ELSE cmts[i] ]

(* DELETE FROM comments WHERE id = c, in place of the soft delete *)
RemoveComment(cmts, c) ==
    IF c \in DOMAIN cmts
    THEN SubSeq(cmts, 1, c - 1) \o SubSeq(cmts, c + 1, Len(cmts))
    ELSE cmts

(* deleteComment: UPDATE comments SET isActive = false WHERE id = c *)
SoftDeleteComment(cmts, c) ==
    [ i \in DOMAIN cmts |->
        IF i = c THEN [cmts[i] EXCEPT !.isActive = FALSE] ELSE cmts[i] ]

(* CommentBefore with the order reversed: asc(createdAt), dateA - dateB *)
CommentBeforeOldestFirst(cmts, a, b) == cmts[a].createdAt < cmts[b].createdAt

(* desc(comments.createdAt), dateB - dateA: comment a sorts strictly before b *)
CommentBefore(cmts, a, b) == cmts[a].createdAt > cmts[b].createdAt

(* Insert comment id into ids ordered by createdAt descending; comments that
   compare equal keep the order in which they came *)
RECURSIVE InsertComment(_, _, _)
InsertComment(cmts, sorted, id) ==
    IF sorted = <<>> THEN <<id>>
    ELSE IF CommentBefore(cmts, id, Head(sorted))
         THEN <<id>> \o sorted
         ELSE <<Head(sorted)>> \o InsertComment(cmts, Tail(sorted), id)

(* orderBy(desc(comments.createdAt)), and replies.sort((a, b) => dateB - dateA) *)
RECURSIVE OrderComments(_, _)
OrderComments(cmts, ids) ==
    IF ids = <<>> THEN <<>>
    ELSE InsertComment(cmts, OrderComments(cmts, SubSeq(ids, 1, Len(ids) - 1)), ids[Len(ids)])

(* if (comment.parentId): NULL and 0 are both falsy *)
HasParent(cmts, c) == cmts[c].parentId # NoParent /\ cmts[c].parentId # 0

(* commentWithAuthor = { ...comment, author, replies } *)
CommentWithAuthor(cmts, c, replies) ==
    [ id |-> c, content |-> cmts[c].content, projectId |-> cmts[c].projectId,
      authorId |-> cmts[c].authorId, parentId |-> cmts[c].parentId,
      isActive |-> cmts[c].isActive, createdAt |-> cmts[c].createdAt,
      replies |-> replies ]

(* CommentSelected without the isActive condition *)
CommentSelectedAnyState(cmts, c, p) == cmts[c].projectId = p

(* WHERE comments.projectId = p AND comments.isActive = true *)
CommentSelected(cmts, c, p) == cmts[c].projectId = p /\ cmts[c].isActive

(* getComments(projectId); scan is the order in which the store visits the
   rows of the comments table *)
getComments(cmts, p, scan) ==
    LET Keep(c) == CommentSelected(cmts, c, p)
        allComments == OrderComments(cmts, SelectSeq(scan, Keep))
        IsRoot(c) == ~HasParent(cmts, c)
        IsReply(c) == HasParent(cmts, c)
        rootComments == SelectSeq(allComments, IsRoot)
        replies == SelectSeq(allComments, IsReply)
        RepliesOf(root) ==
            LET Under(c) == cmts[c].parentId = root
                mine == OrderComments(cmts, SelectSeq(replies, Under))
            IN [ i \in DOMAIN mine |-> CommentWithAuthor(cmts, mine[i], <<>>) ]
    IN [ i \in DOMAIN rootComments |->
            CommentWithAuthor(cmts, rootComments[i], RepliesOf(rootComments[i])) ]

----------------------------------------------------------------------------
(* View counter *)

(* incrementViewCount restricted to rows that are still active *)
AddViewIfActive(projs, id) ==
    [ i \in DOMAIN projs |->
        IF i = id /\ projs[i].isActive
        THEN [projs[i] EXCEPT !.viewCount = @ + 1] ELSE projs[i] ]

(* incrementViewCount: UPDATE projects SET viewCount = viewCount + 1 WHERE id = id *)
AddView(projs, id) ==
    [ i \in DOMAIN projs |->
        IF i = id THEN [projs[i] EXCEPT !.viewCount = @ + 1] ELSE projs[i] ]

(* Number of incrementViewCount calls recorded for row p *)
ViewCallsOf(vc, p) == IF p \in DOMAIN vc THEN vc[p] ELSE 0

(* One more incrementViewCount call on row p *)
CountViewCall(vc, p) ==
    [ x \in DOMAIN vc \cup {p} |-> IF x = p THEN ViewCallsOf(vc, p) + 1 ELSE vc[x] ]

----------------------------------------------------------------------------
(* Updates and soft deletes of the storage layer, with what they return *)

(* .returning() of an UPDATE ... WHERE id = id: the row, or nothing *)
Returning(rows, id) == IF id \in DOMAIN rows THEN <<rows[id]>> ELSE <<>>

(* updateProject: UPDATE projects SET ...project WHERE id = id *)
updateProject(projs, id, project) ==
    LET updated ==
            [ i \in DOMAIN projs |->
                IF i = id
                THEN [projs[i] EXCEPT !.title = Opt(project, "title", @),
                                      !.description = Opt(project, "description", @),
                                      !.categoryId = Opt(project, "categoryId", @),
                                      !.authorId = Opt(project, "authorId", @)]
                ELSE projs[i] ]
    IN [ projects |-> updated, ret |-> Returning(updated, id) ]

(* deleteProject: UPDATE projects SET isActive = false WHERE id = id *)
deleteProject(projs, id) ==
    [ projects |-> SoftDeleteProject(projs, id), ret |-> Returning(projs, id) # <<>> ]

(* updateComment: UPDATE comments SET content WHERE id = id *)
updateComment(cmts, id, content) ==
    LET updated == SetCommentContent(cmts, id, content)
    IN [ comments |-> updated, ret |-> Returning(updated, id) ]

(* deleteComment: UPDATE comments SET isActive = false WHERE id = id *)
deleteComment(cmts, id) ==
    [ comments |-> SoftDeleteComment(cmts, id), ret |-> Returning(cmts, id) # <<>> ]

(* createFeedback: INSERT with the column defaults of the feedback table *)
NewFeedback(feedbackData, u, t) ==
    [ content |-> feedbackData.content, category |-> feedbackData.category,
      authorId |-> u, isActive |-> TRUE, createdAt |-> t, updatedAt |-> t ]

(* The existence check without the authorId condition *)
ExistingFeedbackOfAnyAuthor(fbs, id, userId) == id \in DOMAIN fbs /\ fbs[id].isActive

(* SELECT FROM feedback WHERE id = id AND authorId = userId AND isActive = true *)
ExistingFeedback(fbs, id, userId) ==
    id \in DOMAIN fbs /\ fbs[id].authorId = userId /\ fbs[id].isActive

(* updateFeedback: null unless the row exists, is active and is the user's *)
updateFeedback(fbs, id, data, userId, t) ==
    IF ~ExistingFeedback(fbs, id, userId)
    THEN [ feedback |-> fbs, ret |-> <<>> ]
    ELSE LET updated == [fbs EXCEPT ![id].content = data.content,
                                    ![id].category = data.category,
                                    ![id].updatedAt = t]
         IN [ feedback |-> updated, ret |-> Returning(updated, id) ]

(* deleteFeedback: false unless the row exists, is active and is the user's *)
deleteFeedback(fbs, id, userId) ==
    IF ~ExistingFeedback(fbs, id, userId)
    THEN [ feedback |-> fbs, ret |-> FALSE ]
    ELSE [ feedback |-> [fbs EXCEPT ![id].isActive = FALSE], ret |-> TRUE ]

(* The ownership check passing for every project that is found *)
OwnsProjectIfFound(existingProject, userId) == existingProject # <<>>

(* !(!existingProject || existingProject.authorId !== userId) *)
OwnsProject(existingProject, userId) ==
    existingProject # <<>> /\ existingProject[1].authorId = userId

(* The view counted for whatever getProject returned *)
ProjectFoundOrNot(project) == TRUE

(* !(!project): getProject returned a row *)
ProjectFound(project) == project # <<>>

(* res.status(status) of the route, for the request of user u naming id *)
Response(route, u, id, status) ==
    [ route |-> route, userId |-> u, id |-> id, status |-> status ]

----------------------------------------------------------------------------
(* Site visits and statistics *)

(* visitDate >= today AND visitDate < tomorrow, today the server's midnight *)
VisitedToday(visit, t) ==
    visit.visitDate >= CurrentDate(t) /\ visit.visitDate < CurrentDate(t) + DayLen

(* SELECT FROM siteVisits WHERE sessionId = visitData.sessionId AND visitDate
   within today: the ids matched, in the order the store scans them *)
ExistingVisits(visits, visitData, t, scan) ==
    SelectSeq(scan, LAMBDA i : /\ visits[i].sessionId = visitData.sessionId
                               /\ VisitedToday(visits[i], t))

(* A site_visits row as returned, with its id *)
VisitRow(visits, i) ==
    [ id |-> i, sessionId |-> visits[i].sessionId, visitDate |-> visits[i].visitDate ]

(* recordVisit: the first existing row of the session today, else INSERT visitData *)
recordVisit(visits, visitData, t, scan) ==
    LET existing == ExistingVisits(visits, visitData, t, scan)
        inserted == Append(visits, visitData)
    IN IF existing # <<>>
       THEN [ siteVisits |-> visits, ret |-> VisitRow(visits, Head(existing)) ]
       ELSE [ siteVisits |-> inserted, ret |-> VisitRow(inserted, Len(inserted)) ]

(* getTodayVisits: COUNT(DISTINCT sessionId) over the rows of today *)
getTodayVisits(visits, t) ==
    Cardinality({ visits[i].sessionId :
                    i \in { j \in DOMAIN visits : VisitedToday(visits[j], t) } })

(* The statistics query with the isActive filter left out *)
IsActiveProjectOrNot(projs, p) == TRUE

(* .where(eq(projects.isActive, true)) of the statistics query *)
IsActiveProject(projs, p) == projs[p].isActive

(* SUM(likeCount) over the selected rows; NULL when there is none *)
RECURSIVE SumLikeCount(_, _)
SumLikeCount(projs, ids) ==
    IF ids = <<>> THEN NoSum
    ELSE LET rest == SumLikeCount(projs, Tail(ids))
         IN projs[Head(ids)].likeCount + (IF rest = NoSum THEN 0 ELSE rest)

(* value || 0 *)
OrZero(value) == IF value = NoSum \/ value = 0 THEN 0 ELSE value

(* getStats: project aggregate, user count, today's visits *)
getStats(projs, usrs, visits, t, scan) ==
    LET selected == SelectSeq(scan, LAMBDA p : IsActiveProject(projs, p))
    IN [ totalProjects |-> OrZero(Len(selected)),
         totalUsers |-> OrZero(Cardinality(usrs)),
         todayVisits |-> getTodayVisits(visits, t),
         totalLikes |-> OrZero(SumLikeCount(projs, selected)) ]

----------------------------------------------------------------------------
(* useProjectPagination *)

(* useState initial value, and what resetPagination sets *)
InitialState ==
    [ currentPage |-> 1, allProjects |-> <<>>,
      noMoreProjects |-> FALSE, hasTriedLoadMore |-> FALSE ]

(* No load-more request is pending *)
IdleMutation == [ isPending |-> FALSE, timeframe |-> "", categoryId |-> NoCategory, page |-> 0 ]

(* buildParams(page): the request a fetch sends under selection sel *)
buildParams(sel, page) ==
    [ isPending |-> TRUE, timeframe |-> sel.activeTab,
      categoryId |-> sel.selectedCategory, page |-> page ]

(* response.json() of GET /api/projects for a request: n projects, each known
   by the timeframe, category and page it was fetched for *)
FetchedProjects(request, n) ==
    [ i \in 1 .. n |->
        [ timeframe |-> request.timeframe, categoryId |-> request.categoryId,
          page |-> request.page ] ]

(* useEffect on [projects]: the first page replaces the accumulated list *)
FirstPageState(firstPage) ==
    [ currentPage |-> 1, allProjects |-> firstPage,
      noMoreProjects |-> Len(firstPage) < HookLimit, hasTriedLoadMore |-> FALSE ]

(* loadMoreMutation onSuccess *)
LoadMoreSuccessState(prev, newProjects) ==
    [ currentPage |-> IF Len(newProjects) > 0 THEN prev.currentPage + 1
                                              ELSE prev.currentPage,
      allProjects |-> IF Len(newProjects) > 0 THEN prev.allProjects \o newProjects
                                              ELSE prev.allProjects,
      noMoreProjects |-> Len(newProjects) < HookLimit \/ Len(newProjects) = 0,
      hasTriedLoadMore |-> TRUE ]

(* loadMoreMutation onError *)
LoadMoreErrorState(prev) ==
    [prev EXCEPT !.hasTriedLoadMore = TRUE, !.noMoreProjects = TRUE]

(* The button shown although the list is exhausted *)
showLoadMoreButtonAlways(st) == Len(st.allProjects) > 0

(* showLoadMoreButton *)
showLoadMoreButton(st) == Len(st.allProjects) > 0 /\ ~st.noMoreProjects

(* showNoMoreMessage *)
showNoMoreMessage(st) ==
    st.hasTriedLoadMore /\ st.noMoreProjects /\ Len(st.allProjects) > 0

----------------------------------------------------------------------------
(* Actions *)

(* No GET, PUT or DELETE :id request has been answered yet *)
NoRequest == [route |-> "", userId |-> NoUser, id |-> 0, status |-> 0]

IdleCall == [pc |-> "idle", projectId |-> 0, userId |-> NoUser, existing |-> FALSE]

Init ==
    /\ now = 0
    /\ projects = <<>>
    /\ likes = <<>>
    /\ comments = <<>>
    /\ calls = [pr \in Procs |-> IdleCall]
    /\ started = 0
    /\ feedback = <<>>
    /\ siteVisits = <<>>
    /\ users = {}
    /\ served = NoRequest
    /\ viewCalls = <<>>
    /\ selection = [activeTab |-> "today", selectedCategory |-> NoCategory]
    /\ state = InitialState
    /\ firstPageData = <<>>
    /\ loadMoreMutation = IdleMutation
    /\ exhausted = FALSE

(* The clock of the store advances by d ticks *)
Tick(d) ==
    /\ now' = now + d
    /\ UNCHANGED <<projects, likes, comments, calls, started,
                 feedback, siteVisits, users, served, viewCalls, hookVars>>

(* POST /api/projects/:id/like with no other request in flight *)
ToggleLike(p, u) ==
    /\ p \in DOMAIN projects
    /\ \A pr \in Procs : calls[pr].pc = "idle"
    /\ LET r == ToggleLikeCall(projects, likes, p, u)
       IN /\ projects' = r.projects
          /\ likes' = r.likes
    /\ UNCHANGED <<now, comments, calls, started,
                 feedback, siteVisits, users, served, viewCalls, hookVars>>

(* POST /api/projects/:id/like answered 500: toggleLike threw at statement failAt *)
ToggleLikeFails(p, u, failAt) ==
    /\ \A pr \in Procs : calls[pr].pc = "idle"
    /\ LET r == ToggleLikeFailing(projects, likes, p, u, failAt)
       IN /\ projects' = r.projects
          /\ likes' = r.likes
    /\ started' = started + 1
    /\ UNCHANGED <<now, comments, calls,
                   feedback, siteVisits, users, served, viewCalls, hookVars>>

(* DELETE /api/projects/:id by user u: getProject, ownership check, deleteProject *)
DeleteProject(u, p) ==
    /\ getProject(projects, likes, p, NoUser) # <<>>
    /\ getProject(projects, likes, p, NoUser)[1].authorId = u
    /\ projects' = SoftDeleteProject(projects, p)
    /\ UNCHANGED <<now, likes, comments, calls, started,
                 feedback, siteVisits, users, served, viewCalls, hookVars>>

(* POST /api/projects/:id/comments by user u: createComment *)
CreateComment(u, p, parentId, content) ==
    /\ p \in DOMAIN projects
    /\ comments' = Append(comments, NewComment(content, p, u, parentId, now))
    /\ projects' = UpdateCommentCount(projects, p)
    /\ UNCHANGED <<now, likes, calls, started,
                 feedback, siteVisits, users, served, viewCalls, hookVars>>

(* PUT /api/comments/:id by user u: updateComment *)
UpdateComment(u, c, content) ==
    /\ c \in DOMAIN comments
    /\ comments' = SetCommentContent(comments, c, content)
    /\ UNCHANGED <<now, projects, likes, calls, started,
                 feedback, siteVisits, users, served, viewCalls, hookVars>>

(* DELETE /api/comments/:id by user u: deleteComment *)
DeleteComment(u, c) ==
    /\ c \in DOMAIN comments
    /\ comments' = SoftDeleteComment(comments, c)
    /\ UNCHANGED <<now, projects, likes, calls, started,
                 feedback, siteVisits, users, served, viewCalls, hookVars>>

(* incrementViewCount(id): one UPDATE statement, on whatever row has the id *)
IncrementViewCount(id) ==
    /\ projects' = AddView(projects, id)
    /\ viewCalls' = IF id \in DOMAIN projects THEN CountViewCall(viewCalls, id)
                                              ELSE viewCalls
    /\ UNCHANGED <<now, likes, comments, calls, started,
                   feedback, siteVisits, users, served, hookVars>>

(* upsertUser: INSERT INTO users ... ON CONFLICT (id) DO UPDATE *)
UpsertUser(u) ==
    /\ users' = users \cup {u}
    /\ UNCHANGED <<now, projects, likes, comments, calls, started,
                   feedback, siteVisits, served, viewCalls, hookVars>>

(* recordVisit(visitData), from the visitor middleware or POST /api/visit *)
RecordVisit(visitData) ==
    /\ \E scan \in Perms(DOMAIN siteVisits) :
          siteVisits' = recordVisit(siteVisits, visitData, now, scan).siteVisits
    /\ UNCHANGED <<now, projects, likes, comments, calls, started,
                   feedback, users, served, viewCalls, hookVars>>

(* GET /api/projects/:id by viewer u: getProject, then incrementViewCount *)
GetApiProjectsId(u, id) ==
    LET project == getProject(projects, likes, id, u)
    IN /\ IF ~ProjectFound(project)
          THEN /\ UNCHANGED <<projects, viewCalls>>
               /\ served' = Response("GET /api/projects/:id", u, id, 404)
          ELSE /\ projects' = AddView(projects, id)
               /\ viewCalls' = IF id \in DOMAIN projects
                                THEN CountViewCall(viewCalls, id) ELSE viewCalls
               /\ served' = Response("GET /api/projects/:id", u, id, 200)
       /\ UNCHANGED <<now, likes, comments, calls, started,
                      feedback, siteVisits, users, hookVars>>

(* PUT /api/projects/:id by user u: getProject, ownership check, updateProject *)
PutApiProjectsId(u, id, project) ==
    LET existingProject == getProject(projects, likes, id, NoUser)
        r == updateProject(projects, id, project)
    IN /\ IF ~OwnsProject(existingProject, u)
          THEN /\ projects' = projects
               /\ served' = Response("PUT /api/projects/:id", u, id, 403)
          ELSE /\ projects' = r.projects
               /\ served' = Response("PUT /api/projects/:id", u, id,
                                     IF r.ret = <<>> THEN 404 ELSE 200)
       /\ UNCHANGED <<now, likes, comments, calls, started,
                      feedback, siteVisits, users, viewCalls, hookVars>>

(* DELETE /api/projects/:id by user u: getProject, ownership check, deleteProject *)
DeleteApiProjectsId(u, id) ==
    LET existingProject == getProject(projects, likes, id, NoUser)
        r == deleteProject(projects, id)
    IN /\ IF ~OwnsProject(existingProject, u)
          THEN /\ projects' = projects
               /\ served' = Response("DELETE /api/projects/:id", u, id, 403)
          ELSE /\ projects' = r.projects
               /\ served' = Response("DELETE /api/projects/:id", u, id,
                                     IF r.ret THEN 200 ELSE 404)
       /\ UNCHANGED <<now, likes, comments, calls, started,
                      feedback, siteVisits, users, viewCalls, hookVars>>

(* PUT /api/comments/:id by user u: updateComment *)
PutApiCommentsId(u, id, content) ==
    LET r == updateComment(comments, id, content)
    IN /\ comments' = r.comments
       /\ served' = Response("PUT /api/comments/:id", u, id,
                             IF r.ret = <<>> THEN 404 ELSE 200)
       /\ UNCHANGED <<now, projects, likes, calls, started,
                      feedback, siteVisits, users, viewCalls, hookVars>>

(* DELETE /api/comments/:id by user u: deleteComment *)
DeleteApiCommentsId(u, id) ==
    LET r == deleteComment(comments, id)
    IN /\ comments' = r.comments
       /\ served' = Response("DELETE /api/comments/:id", u, id,
                             IF r.ret THEN 200 ELSE 404)
       /\ UNCHANGED <<now, projects, likes, calls, started,
                      feedback, siteVisits, users, viewCalls, hookVars>>

(* POST /api/feedback by user u: createFeedback *)
CreateFeedback(u, feedbackData) ==
    /\ feedback' = Append(feedback, NewFeedback(feedbackData, u, now))
    /\ UNCHANGED <<now, projects, likes, comments, calls, started,
                   siteVisits, users, served, viewCalls, hookVars>>

(* PUT /api/feedback/:id by user u: updateFeedback *)
PutApiFeedbackId(u, id, data) ==
    LET r == updateFeedback(feedback, id, data, u, now)
    IN /\ feedback' = r.feedback
       /\ served' = Response("PUT /api/feedback/:id", u, id,
                             IF r.ret = <<>> THEN 404 ELSE 200)
       /\ UNCHANGED <<now, projects, likes, comments, calls, started,
                      siteVisits, users, viewCalls, hookVars>>

(* DELETE /api/feedback/:id by user u: deleteFeedback *)
DeleteApiFeedbackId(u, id) ==
    LET r == deleteFeedback(feedback, id, u)
    IN /\ feedback' = r.feedback
       /\ served' = Response("DELETE /api/feedback/:id", u, id,
                             IF r.ret THEN 200 ELSE 404)
       /\ UNCHANGED <<now, projects, likes, comments, calls, started,
                      siteVisits, users, viewCalls, hookVars>>

(* The tables and counters of the server, which the hook never writes *)
serverVars == <<now, projects, likes, comments, calls, started,
                feedback, siteVisits, users, served, viewCalls>>

(* setActiveTab(tab): a new query key, whose data is not there yet *)
SetActiveTab(tab) ==
    /\ tab # selection.activeTab
    /\ selection' = [selection EXCEPT !.activeTab = tab]
    /\ firstPageData' = <<>>
    /\ UNCHANGED <<state, loadMoreMutation, exhausted, serverVars>>

(* setSelectedCategory(categoryId): a new query key, whose data is not there yet *)
SetSelectedCategory(categoryId) ==
    /\ categoryId # selection.selectedCategory
    /\ selection' = [selection EXCEPT !.selectedCategory = categoryId]
    /\ firstPageData' = <<>>
    /\ UNCHANGED <<state, loadMoreMutation, exhausted, serverVars>>

(* The first-page query of the current key resolves with n projects (first
   load or refetch) and the effect on [projects] runs *)
FirstPageArrives(n) ==
    LET firstPage == FetchedProjects(buildParams(selection, 1), n)
    IN /\ firstPageData' = <<firstPage>>
       /\ state' = FirstPageState(firstPage)
       /\ exhausted' = FALSE
       /\ UNCHANGED <<selection, loadMoreMutation, serverVars>>

(* handleLoadMore, clicked on the rendered button *)
HandleLoadMore ==
    /\ showLoadMoreButton(state)
    /\ ~loadMoreMutation.isPending
    /\ loadMoreMutation' = buildParams(selection, state.currentPage + 1)
    /\ UNCHANGED <<selection, state, firstPageData, exhausted, serverVars>>

(* The pending load-more request resolves with n projects: onSuccess *)
LoadMoreSucceeds(n) ==
    /\ loadMoreMutation.isPending
    /\ state' = LoadMoreSuccessState(state, FetchedProjects(loadMoreMutation, n))
    /\ loadMoreMutation' = IdleMutation
    /\ exhausted' = (exhausted \/ n < HookLimit)
    /\ UNCHANGED <<selection, firstPageData, serverVars>>

(* The pending load-more request fails: onError *)
LoadMoreFails ==
    /\ loadMoreMutation.isPending
    /\ state' = LoadMoreErrorState(state)
    /\ loadMoreMutation' = IdleMutation
    /\ exhausted' = TRUE
    /\ UNCHANGED <<selection, firstPageData, serverVars>>

(* resetPagination *)
ResetPagination ==
    /\ state' = InitialState
    /\ UNCHANGED <<selection, firstPageData, loadMoreMutation, exhausted, serverVars>>

----------------------------------------------------------------------------
(* The store with one request at a time *)

(* Ids a request can name: the stored rows and the next free id *)
RowIds(rows) == 1 .. (Len(rows) + 1)

Next ==
    \/ \E u \in Users, input \in ProjectInputs :
          Len(projects) < MaxProjects /\ CreateProject(u, input)
    \/ \E u \in Users, p \in DOMAIN projects : DeleteProject(u, p)
    \/ \E u \in Users, p \in DOMAIN projects : ToggleLike(p, u)
    \/ now < MaxNow /\ Tick(1)

Spec == Init /\ [][Next]_vars

----------------------------------------------------------------------------
(* toggleLike statement by statement: each await is one step of the request
   in slot pr, and steps of different requests interleave *)

(* const existingLike = await db.select().from(likes).where(...) *)
TLCheck(pr, p, u) ==
    /\ calls[pr].pc = "idle"
    /\ p \in DOMAIN projects
    /\ calls' = [calls EXCEPT ![pr] =
                    [pc |-> "write", projectId |-> p, userId |-> u,
                     existing |-> SelectLike(likes, p, u)]]
    /\ started' = started + 1
    /\ UNCHANGED <<now, projects, likes, comments,
                 feedback, siteVisits, users, served, viewCalls, hookVars>>

(* await db.delete(likes).where(...)  or  await db.insert(likes).values(...) *)
TLWrite(pr) ==
    /\ calls[pr].pc = "write"
    /\ likes' = IF calls[pr].existing
                THEN DeleteLike(likes, calls[pr].projectId, calls[pr].userId)
                ELSE InsertLike(likes, calls[pr].projectId, calls[pr].userId)
    /\ calls' = [calls EXCEPT ![pr].pc = "count"]
    /\ UNCHANGED <<now, projects, comments, started,
                 feedback, siteVisits, users, served, viewCalls, hookVars>>

(* await db.update(projects).set({ likeCount: sql`likeCount -/+ 1` }) *)
TLCount(pr) ==
    /\ calls[pr].pc = "count"
    /\ projects' = UpdateLikeCount(projects, calls[pr].projectId,
                                   IF calls[pr].existing THEN -1 ELSE 1)
    /\ calls' = [calls EXCEPT ![pr].pc = "read"]
    /\ UNCHANGED <<now, likes, comments, started,
                 feedback, siteVisits, users, served, viewCalls, hookVars>>

(* const [project] = await db.select(...); return { liked, likeCount } *)
TLReturn(pr) ==
    /\ calls[pr].pc = "read"
    /\ calls' = [calls EXCEPT ![pr] = IdleCall]
    /\ UNCHANGED <<now, projects, likes, comments, started,
                 feedback, siteVisits, users, served, viewCalls, hookVars>>

(* Concurrent like requests on the store *)
NextConc ==
    \/ \E u \in Users, input \in ProjectInputs :
          Len(projects) < MaxConcProjects /\ CreateProject(u, input)
    \/ \E pr \in Procs, u \in Users, p \in DOMAIN projects :
          started < MaxStarted /\ TLCheck(pr, p, u)
    \/ \E pr \in Procs : TLWrite(pr)
    \/ \E pr \in Procs : TLCount(pr)
    \/ \E pr \in Procs : TLReturn(pr)

SpecConc == Init /\ [][NextConc]_vars

(* The user whose requests slot pr serves when every slot has its own user *)
UserOf(pr) == IF pr = 1 THEN "u1" ELSE "u2"

(* Concurrent like requests of distinct users: each user's own requests follow
   one another, those of different users interleave *)
NextConcDistinct ==
    \/ \E u \in Users, input \in ProjectInputs :
          Len(projects) < MaxConcProjects /\ CreateProject(u, input)
    \/ \E pr \in Procs, p \in DOMAIN projects :
          started < MaxDistinctStarted /\ TLCheck(pr, p, UserOf(pr))
    \/ \E pr \in Procs : TLWrite(pr)
    \/ \E pr \in Procs : TLCount(pr)
    \/ \E pr \in Procs : TLReturn(pr)

SpecConcDistinct == Init /\ [][NextConcDistinct]_vars

(* Like requests one at a time, some of which fail at a store statement *)
NextFail ==
    \/ \E u \in Users :
          \E input \in ProjectInputs :
              Len(projects) < MaxConcProjects /\ CreateProject(u, input)
    \/ \E u \in Users, p \in DOMAIN projects : ToggleLike(p, u)
    \/ \E u \in Users, p \in RowIds(projects), failAt \in Statements :
          started < MaxFailed /\ ToggleLikeFails(p, u, failAt)

SpecFail == Init /\ [][NextFail]_vars

(* The feed over a month of wall-clock time *)
NextTime ==
    \/ \E input \in ProjectInputs :
          Len(projects) < MaxTimeProjects /\ CreateProject("u1", input)
    \/ \E p \in DOMAIN projects : DeleteProject("u1", p)
    \/ now < MaxDays * DayLen /\ Tick(1)

SpecTime == Init /\ [][NextTime]_vars

(* parentId values of a request body: none, 0, a stored comment, the id the
   new comment will get *)
ParentIds == {NoParent} \cup (0 .. (Len(comments) + 1))

(* The request body of the projects that get commented *)
CommentedProject == CHOOSE i \in ProjectInputs : i.categoryId = NoCategory

(* Comment requests, one at a time: the comment tree of two projects *)
NextComments ==
    \/ \E input \in {CommentedProject} :
          Len(projects) < MaxCommentProjects /\ CreateProject("u1", input)
    \/ \E p \in DOMAIN projects, parentId \in ParentIds :
          Len(comments) < MaxComments /\ CreateComment("u1", p, parentId, "x")
    \/ \E c \in DOMAIN comments : DeleteComment("u1", c)
    \/ now < MaxCommentNow /\ Tick(1)

SpecComments == Init /\ [][NextComments]_vars

(* Ids a view request can name: the stored projects and the next free id *)
ViewIds == 1 .. (Len(projects) + 1)

(* Views of projects that are created and soft-deleted meanwhile *)
NextViews ==
    \/ \E u \in Users :
          Len(projects) < MaxViewProjects /\ CreateProject(u, CommentedProject)
    \/ \E u \in Users, p \in DOMAIN projects : DeleteProject(u, p)
    \/ \E id \in ViewIds :
          ViewCallsOf(viewCalls, id) < MaxViews /\ IncrementViewCount(id)

SpecViews == Init /\ [][NextViews]_vars

(* visitData of a recordVisit call: a session and the visitDate it carries,
   an instant the caller read from the clock at or before the call *)
VisitInputs == [ sessionId : Sessions, visitDate : 0 .. now ]

(* Visits, sign-ups, projects and likes over two calendar days *)
NextStats ==
    \/ \E u \in Users : UpsertUser(u)
    \/ \E u \in users :
          Len(projects) < MaxStatsProjects /\ CreateProject(u, CommentedProject)
    \/ \E u \in users, p \in DOMAIN projects : DeleteProject(u, p)
    \/ \E u \in users, p \in DOMAIN projects : ToggleLike(p, u)
    \/ \E visitData \in VisitInputs :
          Len(siteVisits) < MaxVisits /\ RecordVisit(visitData)
    \/ now < MaxStatsNow /\ Tick(1)

SpecStats == Init /\ [][NextStats]_vars

(* Updates and deletes of projects, comments and feedback by either user *)
NextRoutes ==
    \/ \E u \in Users :
          Len(projects) < MaxRouteProjects /\ CreateProject(u, CommentedProject)
    \/ \E u \in Users, id \in RowIds(projects), project \in ProjectPatches :
          PutApiProjectsId(u, id, project)
    \/ \E u \in Users, id \in RowIds(projects) : DeleteApiProjectsId(u, id)
    \/ \E u \in Users, p \in DOMAIN projects :
          Len(comments) < MaxRouteComments /\ CreateComment(u, p, NoParent, "x")
    \/ \E u \in Users, id \in RowIds(comments), content \in CommentContents :
          PutApiCommentsId(u, id, content)
    \/ \E u \in Users, id \in RowIds(comments) : DeleteApiCommentsId(u, id)
    \/ \E u \in Users, feedbackData \in FeedbackInputs :
          Len(feedback) < MaxRouteFeedback /\ CreateFeedback(u, feedbackData)
    \/ \E u \in Users, id \in RowIds(feedback), data \in FeedbackInputs :
          PutApiFeedbackId(u, id, data)
    \/ \E u \in Users, id \in RowIds(feedback) : DeleteApiFeedbackId(u, id)

SpecRoutes == Init /\ [][NextRoutes]_vars

(* Comments written, edited and soft-deleted by either user *)
NextCommentWrites ==
    \/ \E input \in {CommentedProject} :
          Len(projects) < MaxCommentProjects /\ CreateProject("u1", input)
    \/ \E u \in Users, p \in DOMAIN projects, parentId \in ParentIds :
          Len(comments) < MaxWrittenComments /\ CreateComment(u, p, parentId, "x")
    \/ \E u \in Users, c \in DOMAIN comments, content \in CommentContents :
          UpdateComment(u, c, content)
    \/ \E u \in Users, c \in DOMAIN comments : DeleteComment(u, c)

SpecCommentWrites == Init /\ [][NextCommentWrites]_vars

(* The life of a project: created, viewed, liked, commented, updated, deleted *)
NextLife ==
    \/ \E u \in Users :
          Len(projects) < MaxLifeProjects /\ CreateProject(u, CommentedProject)
    \/ \E u \in Viewers, id \in RowIds(projects) :
          /\ ProjectFound(getProject(projects, likes, id, u))
                => ViewCallsOf(viewCalls, id) < MaxLifeViews
          /\ GetApiProjectsId(u, id)
    \/ \E u \in Users, id \in RowIds(projects), project \in ProjectPatches :
          PutApiProjectsId(u, id, project)
    \/ \E u \in Users, id \in RowIds(projects) : DeleteApiProjectsId(u, id)
    \/ \E u \in Users, p \in DOMAIN projects : ToggleLike(p, u)
    \/ \E u \in Users, p \in DOMAIN projects :
          Len(comments) < MaxLifeComments /\ CreateComment(u, p, NoParent, "x")

SpecLife == Init /\ [][NextLife]_vars

(* One mounted pagination hook: the user's clicks and the responses *)
NextHook ==
    \/ \E tab \in HookTabs : SetActiveTab(tab)
    \/ \E categoryId \in Categories \cup {NoCategory} : SetSelectedCategory(categoryId)
    \/ \E n \in 0 .. HookLimit : FirstPageArrives(n)
    \/ state.currentPage < MaxHookPage /\ HandleLoadMore
    \/ \E n \in 0 .. HookLimit : LoadMoreSucceeds(n)
    \/ LoadMoreFails
    \/ ResetPagination

SpecHook == Init /\ [][NextHook]_vars

----------------------------------------------------------------------------

(* Inputs of the read operations that the properties range over *)

(* Every order in which the store may return the rows of the projects table *)
Scans == Perms(DOMAIN projects)

(* Filters of getProjects, limit and offset left to their defaults *)
FilterOptions ==
    [ categoryId : Categories \cup {NoCategory}, timeframe : Timeframes, userId : Viewers ]

(* limit and offset values around the number of stored projects *)
PageSizes == 0 .. (Len(projects) + 1)

(* The rows are in the order likeCount descending, then createdAt descending *)
Ranked(rows) ==
    \A i \in 1 .. (Len(rows) - 1) :
        /\ rows[i].likeCount >= rows[i + 1].likeCount
        /\ rows[i].likeCount = rows[i + 1].likeCount => rows[i].createdAt >= rows[i + 1].createdAt

Ids(rows) == [ i \in DOMAIN rows |-> rows[i].id ]

----------------------------------------------------------------------------
(* C1: when toggleLike calls run one at a time, every project's likeCount
   equals the number of Like rows that reference the project. *)
C1_LikeCountMatchesRows ==
    \A p \in DOMAIN projects : projects[p].likeCount = LikeRowsOf(likes, p)

(* C1 witness: a project liked by both users after an unlike happened elsewhere *)
C1_Witness ==
    \E p \in DOMAIN projects :
        /\ projects[p].likeCount = 2
        /\ LikeRowsOf(likes, p) = 2
        /\ \E q \in DOMAIN projects : q # p /\ projects[q].likeCount = 1

(* C2: two consecutive toggleLike(p, u) calls restore the Like rows and the
   likeCount; the first returns liked = (no like existed), the second the
   opposite, each with the likeCount stored after that call. *)
C2_ToggleTwiceRestores ==
    \A p \in DOMAIN projects, u \in Users :
        LET r1 == ToggleLikeCall(projects, likes, p, u)
            r2 == ToggleLikeCall(r1.projects, r1.likes, p, u)
        IN /\ SelectLike(r2.likes, p, u) = SelectLike(likes, p, u)
           /\ r2.likes = likes
           /\ r2.projects = projects
           /\ r1.ret.liked = ~SelectLike(likes, p, u)
           /\ r2.ret.liked = ~r1.ret.liked
           /\ r1.ret.likeCount = r1.projects[p].likeCount
           /\ r2.ret.likeCount = r2.projects[p].likeCount
           /\ r1.ret.likeCount = projects[p].likeCount + (IF r1.ret.liked THEN 1 ELSE -1)
           /\ (projects[p].likeCount = 0 /\ ~SelectLike(likes, p, u)) =>
                 /\ r1.ret = [liked |-> TRUE, likeCount |-> 1]
                 /\ r2.ret = [liked |-> FALSE, likeCount |-> 0]

(* C2 witness: a project liked by one user and not by the other, so that both
   the like-first and the unlike-first double toggle occur *)
C2_Witness ==
    \E p \in DOMAIN projects, u \in Users, v \in Users :
        /\ SelectLike(likes, p, u)
        /\ ~SelectLike(likes, p, v)
        /\ projects[p].likeCount = 1

(* C3: in every reachable state there is at most one Like row per
   (projectId, userId) pair, also when toggleLike requests for the same pair
   interleave between their store statements. *)
C3_AtMostOneLikeRow ==
    \A x \in DOMAIN likes : likes[x] <= 1

(* C4: no read returns a soft-deleted project: getProjects and searchProjects
   return only rows with isActive true, and getProject returns the undefined
   result for an id whose row is inactive or missing. *)
C4_ReadsOnlyActive ==
    /\ \A scan \in Scans, o \in FilterOptions :
          \A r \in Range(getProjects(projects, likes, now, o, scan)) :
              r.isActive /\ projects[r.id].isActive
    /\ \A scan \in Scans, q \in Queries, v \in Viewers :
          \A r \in Range(searchProjects(projects, likes, q, [userId |-> v], scan)) :
              r.isActive /\ projects[r.id].isActive
    /\ \A id \in 0 .. (Len(projects) + 1), v \in Viewers :
          (id \notin DOMAIN projects \/ ~projects[id].isActive)
              => getProject(projects, likes, id, v) = <<>>

(* C4 witness: a soft-deleted project next to an active one that the reads return *)
C4_Witness ==
    /\ \E p \in DOMAIN projects : ~projects[p].isActive
    /\ \E scan \in Scans :
          /\ getProjects(projects, likes, now, << >>, scan) # <<>>
          /\ searchProjects(projects, likes, <<"a">>, << >>, scan) # <<>>

(* The projects table of the ranking scenario: A (5 likes, T1), B (5 likes,
   T2 > T1), C (3 likes), stored with ids 1, 2, 3 *)
ScenarioProjects ==
    << [NewProject(CHOOSE i \in ProjectInputs : i.categoryId = 1, "u1", 1) EXCEPT !.likeCount = 5],
       [NewProject(CHOOSE i \in ProjectInputs : i.categoryId = 1, "u1", 2) EXCEPT !.likeCount = 5],
       [NewProject(CHOOSE i \in ProjectInputs : i.categoryId = 1, "u2", 3) EXCEPT !.likeCount = 3] >>

(* C5: for every store state and filter the result of getProjects and of
   searchProjects is ordered by likeCount descending, then createdAt
   descending; projects A, B, C of the scenario come back as [B, A, C]. *)
C5_ResultsRanked ==
    /\ \A scan \in Scans, o \in FilterOptions :
          Ranked(getProjects(projects, likes, now, o, scan))
    /\ \A scan \in Scans, q \in Queries :
          Ranked(searchProjects(projects, likes, q, << >>, scan))
    /\ \A scan \in Perms(1 .. 3) :
          /\ Ids(getProjects(ScenarioProjects, << >>, 3, << >>, scan)) = <<2, 1, 3>>
          /\ Ids(searchProjects(ScenarioProjects, << >>, <<"a">>, << >>, scan)) = <<2, 1, 3>>

(* C5 witness: two active liked projects that tie on likeCount and differ in
   createdAt, so that the second sort key decides and the newer one is
   returned first *)
C5_Witness ==
    \E p \in DOMAIN projects, q \in DOMAIN projects :
        /\ projects[p].isActive /\ projects[q].isActive
        /\ projects[q].likeCount = projects[p].likeCount
        /\ projects[p].likeCount > 0
        /\ projects[q].createdAt > projects[p].createdAt
        /\ \A scan \in Scans : Ids(getProjects(projects, likes, now, << >>, scan)) = <<q, p>>

(* C8: getProjects applies limit and offset after filtering and sorting: the
   result is exactly positions offset .. offset+limit-1 of the filtered, sorted
   list, never more than limit rows; the route maps page p and limit l to
   offset (p-1)*l, with defaults limit 20 and offset 0. *)
C8_LimitOffsetAfterSort ==
    /\ \A scan \in Scans, c \in Categories \cup {NoCategory}, tf \in Timeframes,
          limit \in PageSizes, offset \in PageSizes :
          LET full == getProjects(projects, likes, now,
                         [categoryId |-> c, timeframe |-> tf, limit |-> Len(projects), offset |-> 0], scan)
              res == getProjects(projects, likes, now,
                         [categoryId |-> c, timeframe |-> tf, limit |-> limit, offset |-> offset], scan)
          IN /\ Len(res) <= limit
             /\ Len(res) = Max(0, Min(limit, Len(full) - offset))
             /\ \A i \in DOMAIN res : res[i] = full[offset + i]
             /\ \A r \in Range(full) : ProjectMatches(projects, r.id, c, tf, now)
             /\ Ranked(full)
    /\ \A page \in 1 .. 3, limit \in PageSizes, v \in Viewers :
          /\ ListOptions([page |-> page, limit |-> limit], v).offset = (page - 1) * limit
          /\ ListOptions([page |-> page, limit |-> limit], v).limit = limit
          /\ ListOptions([page |-> page], v).offset = (page - 1) * 20
    /\ \A v \in Viewers :
          /\ ListOptions(<< >>, v).limit = 20
          /\ ListOptions(<< >>, v).offset = 0
    /\ \A scan \in Scans :
          getProjects(projects, likes, now, << >>, scan)
              = getProjects(projects, likes, now, [limit |-> 20, offset |-> 0], scan)

(* C8 witness: two projects pass the filter, so that a page of one row with
   offset 1 returns the second row of the ranking and not the first *)
C8_Witness ==
    \E scan \in Scans :
        /\ Len(getProjects(projects, likes, now, << >>, scan)) = 2
        /\ getProjects(projects, likes, now, [limit |-> 1, offset |-> 1], scan)
              = SubSeq(getProjects(projects, likes, now, << >>, scan), 2, 2)
        /\ projects[1].likeCount # projects[2].likeCount

(* C9: isLiked of every project returned by getProjects, searchProjects or
   getProject is true iff a viewer was given and a Like row for (project,
   viewer) exists; right after toggleLike(p, u) returns liked = b,
   getProject(p, u) reports isLiked = b. *)
C9_IsLikedIsLikeRow ==
    /\ \A scan \in Scans, o \in FilterOptions :
          \A r \in Range(getProjects(projects, likes, now, o, scan)) :
              r.isLiked = (o.userId # NoUser /\ LikeRows(likes, r.id, o.userId) >= 1)
    /\ \A scan \in Scans, q \in Queries, v \in Viewers :
          \A r \in Range(searchProjects(projects, likes, q, [userId |-> v], scan)) :
              r.isLiked = (v # NoUser /\ LikeRows(likes, r.id, v) >= 1)
    /\ \A id \in DOMAIN projects, v \in Viewers :
          \A r \in Range(getProject(projects, likes, id, v)) :
              r.isLiked = (v # NoUser /\ LikeRows(likes, id, v) >= 1)
    /\ \A scan \in Scans :
          \A r \in Range(getProjects(projects, likes, now, << >>, scan)) : ~r.isLiked
    /\ \A p \in DOMAIN projects, u \in Users :
          LET call == ToggleLikeCall(projects, likes, p, u)
          IN \A r \in Range(getProject(call.projects, call.likes, p, u)) :
                 r.isLiked = call.ret.liked

(* C9 witness: an active project liked by one user and not by the other *)
C9_Witness ==
    \E p \in DOMAIN projects, u \in Users, v \in Users :
        /\ projects[p].isActive
        /\ getProject(projects, likes, p, u)[1].isLiked
        /\ ~getProject(projects, likes, p, v)[1].isLiked
        /\ ~getProject(projects, likes, p, NoUser)[1].isLiked

----------------------------------------------------------------------------
(* Time windows *)

(* The instant at which the calendar day of instant t began *)
StartOfDay(t) == CHOOSE d \in 0 .. t : d % DayLen = 0 /\ d <= t /\ t < d + DayLen

(* Ids of the projects getProjects returns for a timeframe, no other filter *)
FeedIds(options, scan) == Range(Ids(getProjects(projects, likes, now, options, scan)))

ActiveIds == { p \in DOMAIN projects : projects[p].isActive }

(* C6: timeframe 'today' returns no project created before the start of the
   current calendar day and excludes no active project created at or after
   it; timeframe 'all', also the default, excludes no active project. *)
C6_TodayAndAll ==
    \A scan \in Scans :
        /\ FeedIds([timeframe |-> "today"], scan)
              = { p \in ActiveIds : projects[p].createdAt >= StartOfDay(now) }
        /\ FeedIds([timeframe |-> "all"], scan) = ActiveIds
        /\ FeedIds(<< >>, scan) = ActiveIds
        /\ FeedIds(ListOptions(<< >>, NoUser), scan) = ActiveIds
        /\ FeedIds(ListOptions([timeframe |-> "today"], NoUser), scan)
              = FeedIds([timeframe |-> "today"], scan)

(* C6 witness: late in a day, an active project created at that day's midnight
   is returned for 'today' (with another clock, one from the day before is not) *)
C6_Witness ==
    \E p \in ActiveIds :
        /\ now % DayLen # 0
        /\ projects[p].createdAt = StartOfDay(now)
        /\ projects[p].createdAt > 0
        /\ \A scan \in Scans : p \in FeedIds([timeframe |-> "today"], scan)

(* C7 as stated: 'weekly' ('monthly') keeps an active project iff its
   createdAt is at or after the current instant minus 7 (30) days. *)
C7_RollingWindow ==
    \A scan \in Scans :
        /\ FeedIds([timeframe |-> "weekly"], scan)
              = { p \in ActiveIds : projects[p].createdAt >= now - 7 * DayLen }
        /\ FeedIds([timeframe |-> "monthly"], scan)
              = { p \in ActiveIds : projects[p].createdAt >= now - 30 * DayLen }

(* C7 amended: 'weekly' ('monthly') keeps an active project iff its createdAt
   is at or after the start of the current calendar day minus 7 (30) days,
   the boundary instant included. *)
C7_CalendarWindow ==
    \A scan \in Scans :
        /\ FeedIds([timeframe |-> "weekly"], scan)
              = { p \in ActiveIds : projects[p].createdAt >= StartOfDay(now) - 7 * DayLen }
        /\ FeedIds([timeframe |-> "monthly"], scan)
              = { p \in ActiveIds : projects[p].createdAt >= StartOfDay(now) - 30 * DayLen }

(* C7 witness: past midnight, an active project created exactly 30 days before
   the start of the current day; it is in the monthly feed and not in the
   weekly one *)
C7_Witness ==
    \E p \in ActiveIds :
        /\ now % DayLen # 0
        /\ projects[p].createdAt = StartOfDay(now) - 30 * DayLen
        /\ \A scan \in Scans :
              /\ p \in FeedIds([timeframe |-> "monthly"], scan)
              /\ p \notin FeedIds([timeframe |-> "weekly"], scan)

----------------------------------------------------------------------------
(* The comment tree *)

(* Every order in which the store may return the rows of the comments table *)
CommentScans == Perms(DOMAIN comments)

(* C10: getComments returns no comment, root or reply, whose isActive is
   false; every returned comment belongs to the requested project; every reply
   listed under a root has parentId equal to that root's id. *)
C10_CommentsActiveAndNested ==
    \A p \in 1 .. (Len(projects) + 1), scan \in CommentScans :
        \A root \in Range(getComments(comments, p, scan)) :
            /\ root.isActive /\ comments[root.id].isActive
            /\ root.projectId = p /\ comments[root.id].projectId = p
            /\ \A reply \in Range(root.replies) :
                  /\ reply.isActive /\ comments[reply.id].isActive
                  /\ reply.projectId = p /\ comments[reply.id].projectId = p
                  /\ reply.parentId = root.id
                  /\ comments[reply.id].parentId = root.id

(* C10 witness: a root returned with a reply, while the same root also has a
   soft-deleted reply or an active reply stored under another project *)
C10_Witness ==
    \E p \in DOMAIN projects, scan \in CommentScans :
        \E root \in Range(getComments(comments, p, scan)) :
            /\ root.replies # <<>>
            /\ \E c \in DOMAIN comments :
                  /\ comments[c].parentId = root.id
                  /\ \/ comments[c].projectId = p /\ ~comments[c].isActive
                     \/ comments[c].projectId # p /\ comments[c].isActive

(* Reference tree: the active comments of project p that have no parentId *)
ReferenceRoots(p) ==
    { c \in DOMAIN comments :
        comments[c].projectId = p /\ comments[c].isActive /\ comments[c].parentId = NoParent }

(* Reference tree: the active comments of project p whose parentId is r *)
ReferenceReplies(p, r) ==
    { c \in DOMAIN comments :
        comments[c].projectId = p /\ comments[c].isActive /\ comments[c].parentId = r }

(* The comments table after createComment of root R, then of reply X with
   parentId = R.id, both on project 1 *)
ScenarioComments ==
    << NewComment("x", 1, "u1", NoParent, 0), NewComment("x", 1, "u2", 1, 1) >>

(* C11: getComments(P) is the two-level reference tree: the roots are exactly
   the active comments of P with no parentId, each once; the replies of root r
   are exactly the active comments of P whose parentId is r.id, each once;
   every other active comment appears nowhere and every returned reply has an
   empty replies list; root R followed by reply X gives one root R with
   replies [X]. *)
C11_ReferenceTree ==
    /\ \A p \in 1 .. (Len(projects) + 1), scan \in CommentScans :
          LET res == getComments(comments, p, scan)
          IN /\ Range(Ids(res)) = ReferenceRoots(p)
             /\ Len(res) = Cardinality(ReferenceRoots(p))
             /\ \A i \in DOMAIN res :
                   /\ Range(Ids(res[i].replies)) = ReferenceReplies(p, res[i].id)
                   /\ Len(res[i].replies) = Cardinality(ReferenceReplies(p, res[i].id))
                   /\ \A reply \in Range(res[i].replies) : reply.replies = <<>>
    /\ \A scan \in Perms(1 .. 2) :
          LET res == getComments(ScenarioComments, 1, scan)
          IN /\ Ids(res) = <<1>>
             /\ Ids(res[1].replies) = <<2>>

(* The comments are in the order createdAt descending *)
NewestFirst(rows) ==
    \A i \in 1 .. (Len(rows) - 1) : rows[i].createdAt >= rows[i + 1].createdAt

(* C12: getComments returns comments newest first at both levels: adjacent
   roots and adjacent replies of a root have non-increasing createdAt. *)
C12_NewestFirst ==
    \A p \in DOMAIN projects, scan \in CommentScans :
        LET res == getComments(comments, p, scan)
        IN /\ NewestFirst(res)
           /\ \A root \in Range(res) : NewestFirst(root.replies)

(* C12 witness: a root is returned with two replies created at different
   instants, the older one stored first *)
C12_Witness ==
    \E p \in DOMAIN projects, scan \in CommentScans :
        \E root \in Range(getComments(comments, p, scan)) :
            /\ Len(root.replies) = 2
            /\ root.replies[1].createdAt > root.replies[2].createdAt
            /\ root.replies[1].id > root.replies[2].id

(* The Comment rows of project p whose isActive is true *)
ActiveComments(p) ==
    { c \in DOMAIN comments : comments[c].projectId = p /\ comments[c].isActive }

(* C13: after any sequence of createComment, updateComment and deleteComment
   calls run one at a time, every project's commentCount equals the number of
   its Comment rows whose isActive is true. *)
C13_CommentCountMatchesActive ==
    \A p \in DOMAIN projects :
        projects[p].commentCount = Cardinality(ActiveComments(p))

(* C14: incrementViewCount(id) raises the viewCount of the row with that id by
   exactly 1, active or soft-deleted, and changes nothing else; n calls raise
   it by n; for an id with no row the call changes no row. *)
C14_ViewCountCounts ==
    /\ [](\A p \in DOMAIN projects : projects[p].viewCount = ViewCallsOf(viewCalls, p))
    /\ [][\A id \in ViewIds :
            IncrementViewCount(id) =>
                /\ id \in DOMAIN projects =>
                      projects' = [projects EXCEPT ![id].viewCount = @ + 1]
                /\ id \notin DOMAIN projects => projects' = projects
                /\ UNCHANGED <<likes, comments, feedback, siteVisits, users>>]_vars

(* C14 witness: a soft-deleted project has been viewed after its deletion, two
   more times than the active project beside it *)
C14_Witness ==
    \E p, q \in DOMAIN projects :
        /\ ~projects[p].isActive /\ projects[q].isActive
        /\ ViewCallsOf(viewCalls, p) = MaxViews
        /\ projects[p].viewCount = MaxViews
        /\ projects[q].viewCount = 1

(* The SiteVisit rows of session s whose visitDate is in the calendar day of t *)
VisitsOfDay(s, t) ==
    { i \in DOMAIN siteVisits :
        /\ siteVisits[i].sessionId = s
        /\ StartOfDay(siteVisits[i].visitDate) = StartOfDay(t) }

(* C15: after any sequence of recordVisit calls run one at a time there is at
   most one SiteVisit row per (sessionId, calendar day of visitDate), and a
   call for a session that already has a row that day returns the existing
   row and inserts nothing. *)
C15_OneVisitPerSessionDay ==
    /\ [](\A i, j \in DOMAIN siteVisits :
            j \in VisitsOfDay(siteVisits[i].sessionId, siteVisits[i].visitDate) => i = j)
    /\ [][\A visitData \in VisitInputs :
            RecordVisit(visitData) /\ VisitsOfDay(visitData.sessionId, now) # {} =>
                /\ siteVisits' = siteVisits
                /\ \A scan \in Perms(DOMAIN siteVisits) :
                      recordVisit(siteVisits, visitData, now, scan).ret.id
                          \in VisitsOfDay(visitData.sessionId, now)]_vars

(* Sum of likeCount over a set of projects; 0 for the empty set *)
RECURSIVE LikeCountOver(_)
LikeCountOver(S) ==
    IF S = {} THEN 0
    ELSE LET p == CHOOSE x \in S : TRUE
         IN projects[p].likeCount + LikeCountOver(S \ {p})

(* C16: getStats returns totalProjects = number of active projects, totalUsers
   = number of user rows, todayVisits = number of distinct sessionIds among
   the SiteVisit rows whose visitDate is in the current calendar day, and
   totalLikes = sum of likeCount over the active projects (0 when none). *)
C16_StatsAreTheCounts ==
    \A scan \in Scans :
        getStats(projects, users, siteVisits, now, scan) =
            [ totalProjects |-> Cardinality(ActiveIds),
              totalUsers |-> Cardinality(users),
              todayVisits |-> Cardinality({ s \in Sessions : VisitsOfDay(s, now) # {} }),
              totalLikes |-> LikeCountOver(ActiveIds) ]

(* C16 witness: statistics taken on the second day over a liked soft-deleted
   project beside a liked active one, with a visit of today and one of
   yesterday *)
C16_Witness ==
    /\ \E p, q \in DOMAIN projects :
          /\ ~projects[p].isActive /\ projects[p].likeCount > 0
          /\ projects[q].isActive /\ projects[q].likeCount > 0
    /\ users = Users
    /\ now = MaxStatsNow
    /\ \E i, j \in DOMAIN siteVisits :
          VisitedToday(siteVisits[i], now) /\ ~VisitedToday(siteVisits[j], now)

(* The feedback row id exists, is active and was written by user u *)
ActiveFeedbackOf(id, u) ==
    /\ id \in DOMAIN feedback
    /\ feedback[id].isActive
    /\ feedback[id].authorId = u

(* C17: updateFeedback(id, data, userId) and deleteFeedback(id, userId) take
   effect only when the row exists, is active and its authorId equals userId;
   otherwise they return null / false and change nothing. *)
C17_FeedbackOnlyByActiveAuthor ==
    [][\A u \in Users, id \in RowIds(feedback) :
          /\ \A data \in FeedbackInputs :
                PutApiFeedbackId(u, id, data) =>
                    IF ActiveFeedbackOf(id, u)
                    THEN /\ feedback' = [feedback EXCEPT ![id].content = data.content,
                                                         ![id].category = data.category,
                                                         ![id].updatedAt = now]
                         /\ updateFeedback(feedback, id, data, u, now).ret # <<>>
                    ELSE /\ feedback' = feedback
                         /\ updateFeedback(feedback, id, data, u, now).ret = <<>>
                         /\ served'.status = 404
          /\ DeleteApiFeedbackId(u, id) =>
                IF ActiveFeedbackOf(id, u)
                THEN /\ feedback' = [feedback EXCEPT ![id].isActive = FALSE]
                     /\ deleteFeedback(feedback, id, u).ret
                ELSE /\ feedback' = feedback
                     /\ ~deleteFeedback(feedback, id, u).ret
                     /\ served'.status = 404]_vars

(* C17 witness: a user has just been refused the update of an active feedback
   row written by the other user *)
C17_Witness ==
    /\ served.route = "PUT /api/feedback/:id"
    /\ served.status = 404
    /\ served.id \in DOMAIN feedback
    /\ feedback[served.id].isActive
    /\ feedback[served.id].authorId # served.userId

(* The columns of a project row that PUT and DELETE /api/projects/:id write *)
ProjectContent(row) ==
    << row.title, row.description, row.categoryId, row.authorId, row.isActive >>

(* C18: PUT or DELETE /api/projects/:id by an authenticated user who is not
   the project's owner is answered 403 and leaves the project row unchanged;
   only its owner can update or soft-delete a project. *)
C18_OnlyOwnerChangesProject ==
    [][/\ \A u \in Users, id \in DOMAIN projects :
             projects[id].authorId # u =>
                 /\ \A project \in ProjectPatches :
                       PutApiProjectsId(u, id, project) =>
                           served'.status = 403 /\ projects' = projects
                 /\ DeleteApiProjectsId(u, id) =>
                       served'.status = 403 /\ projects' = projects
       /\ \A id \in DOMAIN projects :
             ProjectContent(projects'[id]) # ProjectContent(projects[id]) =>
                 \/ \E project \in ProjectPatches :
                       PutApiProjectsId(projects[id].authorId, id, project)
                 \/ DeleteApiProjectsId(projects[id].authorId, id)]_vars

(* C18 witness: a user has just been answered 403 on the update of an active
   project of the other user *)
C18_Witness ==
    /\ served.route = "PUT /api/projects/:id"
    /\ served.status = 403
    /\ served.id \in DOMAIN projects
    /\ projects[served.id].isActive
    /\ projects[served.id].authorId # served.userId

(* C19: PUT or DELETE /api/comments/:id by a user who is not the comment's
   author is denied and leaves the comment unchanged; the content and isActive
   of a comment are only changed by its own author. *)
C19_OnlyAuthorChangesComment ==
    [][/\ \A u \in Users, id \in DOMAIN comments :
             comments[id].authorId # u =>
                 /\ \A content \in CommentContents :
                       PutApiCommentsId(u, id, content) =>
                           served'.status # 200 /\ comments' = comments
                 /\ DeleteApiCommentsId(u, id) =>
                       served'.status # 200 /\ comments' = comments
       /\ \A id \in DOMAIN comments :
             \/ comments'[id].content # comments[id].content
             \/ comments'[id].isActive # comments[id].isActive
             => served'.userId = comments[id].authorId]_vars

(* No row of the table has the id and is active *)
NoActiveRow(rows, id) == id \notin DOMAIN rows \/ ~rows[id].isActive

(* C20: an update or delete that names a Project, Comment or Feedback id with
   no active matching row is answered not found (404 from the route) and
   changes no row; in particular deleting an already soft-deleted comment, or
   updating its content, is reported as not found. *)
C20_NoActiveRowIsNotFound ==
    [][\A u \in Users :
          /\ \A id \in RowIds(projects) :
                NoActiveRow(projects, id) =>
                    /\ \A project \in ProjectPatches :
                          PutApiProjectsId(u, id, project) =>
                              served'.status = 404 /\ projects' = projects
                    /\ DeleteApiProjectsId(u, id) =>
                          served'.status = 404 /\ projects' = projects
          /\ \A id \in RowIds(comments) :
                NoActiveRow(comments, id) =>
                    /\ \A content \in CommentContents :
                          PutApiCommentsId(u, id, content) =>
                              served'.status = 404 /\ comments' = comments
                    /\ DeleteApiCommentsId(u, id) =>
                          served'.status = 404 /\ comments' = comments
          /\ \A id \in RowIds(feedback) :
                NoActiveRow(feedback, id) =>
                    /\ \A data \in FeedbackInputs :
                          PutApiFeedbackId(u, id, data) =>
                              served'.status = 404 /\ feedback' = feedback
                    /\ DeleteApiFeedbackId(u, id) =>
                          served'.status = 404 /\ feedback' = feedback]_vars

(* C21: the "load more" button is hidden whenever the accumulated list is
   empty (an initial load that returned no project included); once a load-more
   request has returned fewer than limit projects or has failed, the button
   stays hidden until a new first page arrives; the button and the "no more
   projects" message are never shown at the same time. *)
C21_LoadMoreButtonHidden ==
    /\ state.allProjects = <<>> => ~showLoadMoreButton(state)
    /\ exhausted => ~showLoadMoreButton(state)
    /\ ~(showLoadMoreButton(state) /\ showNoMoreMessage(state))

(* C21 witness: a second page came back short and was appended; the message
   is shown in place of the button *)
C21_Witness ==
    /\ exhausted
    /\ state.currentPage = 2
    /\ Len(state.allProjects) > HookLimit
    /\ showNoMoreMessage(state)

(* The project was fetched for the selection sel *)
FetchedFor(project, sel) ==
    project.timeframe = sel.activeTab /\ project.categoryId = sel.selectedCategory

(* C29: once the first page of a new selection is installed, the accumulated
   list only contains projects fetched for the currently selected timeframe
   and category: a load-more response requested under the previous selection
   that arrives afterwards is not appended and does not advance currentPage. *)
C29_StaleLoadMoreIgnored ==
    /\ [](firstPageData # <<>> =>
            \A i \in DOMAIN state.allProjects : FetchedFor(state.allProjects[i], selection))
    /\ [][\A n \in 0 .. HookLimit :
            /\ LoadMoreSucceeds(n)
            /\ firstPageData # <<>>
            /\ \/ loadMoreMutation.timeframe # selection.activeTab
               \/ loadMoreMutation.categoryId # selection.selectedCategory
            => /\ state'.allProjects = state.allProjects
               /\ state'.currentPage = state.currentPage]_vars

(* C22: a project's commentCount changes only through createComment, which
   raises the commentCount of the comment's projectId by exactly 1 for a root
   and for a reply alike, whatever parentId is given; updateComment and
   deleteComment leave every commentCount unchanged. *)
C22_CommentCountOnlyByCreate ==
    [][/\ \A u \in Users, p \in DOMAIN projects, parentId \in ParentIds :
             CreateComment(u, p, parentId, "x") =>
                 \A q \in DOMAIN projects :
                     projects'[q].commentCount =
                         projects[q].commentCount + (IF q = p THEN 1 ELSE 0)
       /\ \A u \in Users, c \in DOMAIN comments :
             /\ \A content \in CommentContents :
                   UpdateComment(u, c, content) => projects' = projects
             /\ DeleteComment(u, c) => projects' = projects
       /\ \A q \in DOMAIN projects :
             projects'[q].commentCount # projects[q].commentCount =>
                 \E u \in Users, parentId \in ParentIds :
                     CreateComment(u, q, parentId, "x")]_vars

(* C22 witness: a reply whose parentId is a comment of another project was
   counted for its own project, then edited and soft-deleted, and is still
   counted *)
C22_Witness ==
    \E c \in DOMAIN comments :
        /\ comments[c].parentId \in DOMAIN comments
        /\ comments[comments[c].parentId].projectId # comments[c].projectId
        /\ comments[c].content = "y"
        /\ ~comments[c].isActive
        /\ projects[comments[c].projectId].commentCount = 1

(* The viewCount column of the projects table *)
ViewCounts(projs) == [ i \in DOMAIN projs |-> projs[i].viewCount ]

(* C23: getProject never changes viewCount; a project's viewCount rises only
   by 1 per GET /api/projects/:id request that found an active project; a GET
   for a missing or soft-deleted id and the ownership lookups of PUT and
   DELETE /api/projects/:id leave every viewCount unchanged. *)
C23_ViewCountOnlyByFoundGet ==
    [][/\ \A u \in Viewers, id \in RowIds(projects) :
             GetApiProjectsId(u, id) =>
                 IF id \in DOMAIN projects /\ projects[id].isActive
                 THEN projects' = [projects EXCEPT ![id].viewCount = @ + 1]
                 ELSE projects' = projects
       /\ \A u \in Users, id \in RowIds(projects) :
             /\ \A project \in ProjectPatches :
                   PutApiProjectsId(u, id, project) =>
                       ViewCounts(projects') = ViewCounts(projects)
             /\ DeleteApiProjectsId(u, id) =>
                   ViewCounts(projects') = ViewCounts(projects)
       /\ \A q \in DOMAIN projects :
             projects'[q].viewCount # projects[q].viewCount =>
                 /\ projects[q].isActive
                 /\ projects'[q].viewCount = projects[q].viewCount + 1
                 /\ \E u \in Viewers : GetApiProjectsId(u, q)]_vars

(* C23 witness: a project viewed twice, then soft-deleted, has just been
   asked for again and answered 404 *)
C23_Witness ==
    /\ served.route = "GET /api/projects/:id"
    /\ served.status = 404
    /\ served.id \in DOMAIN projects
    /\ ~projects[served.id].isActive
    /\ projects[served.id].viewCount = MaxLifeViews

(* The row ids of the table in the next state include those of this state *)
KeepsRows(rows, rowsNext) == Len(rowsNext) >= Len(rows)

(* rowsNext is rows with nothing but the isActive flag of row id cleared *)
OnlyDeactivates(rows, rowsNext, id) ==
    rowsNext = IF id \in DOMAIN rows THEN [rows EXCEPT ![id].isActive = FALSE] ELSE rows

(* C24: no Project, Comment or Feedback row is ever physically removed: the
   sets of stored ids only grow, and deleteProject, deleteComment and
   deleteFeedback change nothing but the isActive flag of the targeted row. *)
C24_NoPhysicalDelete ==
    /\ [][/\ KeepsRows(projects, projects')
          /\ KeepsRows(comments, comments')
          /\ KeepsRows(feedback, feedback')]_vars
    /\ [](/\ \A id \in RowIds(projects) :
                OnlyDeactivates(projects, deleteProject(projects, id).projects, id)
          /\ \A id \in RowIds(comments) :
                /\ KeepsRows(comments, deleteComment(comments, id).comments)
                /\ OnlyDeactivates(comments, deleteComment(comments, id).comments, id)
          /\ \A id \in RowIds(feedback), u \in Users :
                \/ deleteFeedback(feedback, id, u).feedback = feedback
                \/ OnlyDeactivates(feedback, deleteFeedback(feedback, id, u).feedback, id))

(* C24 witness: a project, a comment and a feedback row have all been
   soft-deleted and are all still stored *)
C24_Witness ==
    /\ \E id \in DOMAIN projects : ~projects[id].isActive
    /\ \E id \in DOMAIN comments : ~comments[id].isActive
    /\ \E id \in DOMAIN feedback : ~feedback[id].isActive

(* The columns of a project row that no PUT may touch *)
ProtectedColumns(row) ==
    << row.authorId, row.viewCount, row.likeCount, row.commentCount, row.isActive >>

(* C28: a project's authorId never changes after creation: POST /api/projects
   stores the authenticated user's id as authorId, and no PUT
   /api/projects/:id request changes the authorId, viewCount, likeCount,
   commentCount or isActive of a project. *)
C28_AuthorIdImmutable ==
    [][/\ \A u \in Users :
             CreateProject(u, CommentedProject) =>
                 projects'[Len(projects) + 1].authorId = u
       /\ \A u \in Users, id \in RowIds(projects), project \in ProjectPatches :
             PutApiProjectsId(u, id, project) =>
                 \A q \in DOMAIN projects :
                     ProtectedColumns(projects'[q]) = ProtectedColumns(projects[q])
       /\ \A q \in DOMAIN projects : projects'[q].authorId = projects[q].authorId]_vars

(* C30: soft deletion of a project is permanent: once isActive is false no
   route request sets it back to true, and the project is never returned by
   getProject, listProjects or searchProjects nor counted in the totalProjects
   or totalLikes of getStats. *)
C30_SoftDeleteIsPermanent ==
    /\ [][\A p \in DOMAIN projects : ~projects[p].isActive => ~projects'[p].isActive]_vars
    /\ [](\A p \in DOMAIN projects :
            ~projects[p].isActive =>
                /\ \A v \in Viewers : getProject(projects, likes, p, v) = <<>>
                /\ \A scan \in Scans, o \in FilterOptions :
                      p \notin Range(Ids(getProjects(projects, likes, now, o, scan)))
                /\ \A scan \in Scans, q \in Queries :
                      p \notin Range(Ids(searchProjects(projects, likes, q, << >>, scan)))
                /\ \A scan \in Scans :
                      LET stats == getStats(projects, users, siteVisits, now, scan)
                      IN /\ stats.totalProjects = Cardinality(ActiveIds \ {p})
                         /\ stats.totalLikes = LikeCountOver(ActiveIds \ {p}))

(* C30 witness: a soft-deleted project with an updated title, a like and a
   comment, whose owner has just been refused its deletion a second time *)
C30_Witness ==
    \E p \in DOMAIN projects :
        /\ ~projects[p].isActive
        /\ projects[p].likeCount > 0
        /\ projects[p].commentCount > 0
        /\ projects[p].title = <<"%">>
        /\ served = Response("DELETE /api/projects/:id", projects[p].authorId, p, 403)

(* Every toggleLike call that was started has completed *)
AllCompleted == \A pr \in Procs : calls[pr].pc = "idle"

(* C25: the like-toggle race is reachable: whenever a user has one Like row on
   a project whose likeCount matches its rows, two concurrent toggleLike calls
   by that user with alternating statements end with a likeCount that differs
   from the number of Like rows. *)
C25_LikeRaceReachable ==
    \A p \in DOMAIN projects, u \in Users :
        /\ LikeRows(likes, p, u) = 1
        /\ projects[p].likeCount = LikeRowsOf(likes, p)
        => LET r == RacingToggles(projects, likes, p, u)
           IN ReadLikeCount(r.projects, p) # LikeRowsOf(r.likes, p)

(* C25 witness: after a like and two interleaved unlikes, all three calls
   completed, the project has no Like row and likeCount -1 *)
C25_Witness ==
    /\ AllCompleted
    /\ started = MaxStarted
    /\ \E p \in DOMAIN projects :
          projects[p].likeCount = -1 /\ LikeRowsOf(likes, p) = 0

(* C26: concurrent toggleLike calls by distinct users on the same project lose
   no counter update: for every interleaving, once all calls have completed
   the project's likeCount equals its number of Like rows. *)
C26_DistinctUsersLoseNoUpdate ==
    AllCompleted =>
        \A p \in DOMAIN projects : projects[p].likeCount = LikeRowsOf(likes, p)

(* C26 witness: the calls of the two users are both between their write and
   their counter update, one liking and one unliking *)
C26_Witness ==
    /\ calls[1].pc = "count" /\ calls[2].pc = "count"
    /\ calls[1].projectId = calls[2].projectId
    /\ calls[1].existing /\ ~calls[2].existing

(* C27: toggleLike is all-or-nothing under store failure: when one of its
   store statements fails, neither the Like rows nor any likeCount differ from
   the state before the call. *)
C27_ToggleLikeAllOrNothing ==
    [][\A u \in Users, p \in RowIds(projects), failAt \in Statements :
          ToggleLikeFails(p, u, failAt) =>
              likes' = likes /\ projects' = projects]_vars

====
